---- MODULE Spec2Model ----
(***************************************************************************)
(* The one-time passcode store of otpStore.js (first createOtpStore        *)
(* definition): a Map from passcode to {expiresAt, used}, the sweep        *)
(* purgeExpired, and the two public operations issue and useOnce.          *)
(*                                                                         *)
(* Time is in milliseconds.  Every Date.now() read is modelled: the clock  *)
(* may advance between two reads made by the same operation.               *)
(*                                                                         *)
(* The second createOtpStore definition of the file is run beside the      *)
(* first under SpecBoth.  The browser page built on the store (its forms,  *)
(* the activeOTPs and timers Maps, the intervals and timeouts it sets, the *)
(* demo) is modelled under SpecUI and SpecDemo; there the clock advances   *)
(* between callbacks, by one interval period at a time, and a callback     *)
(* that is due runs before the clock advances again.                       *)
(***************************************************************************)
EXTENDS Integers, Sequences, FiniteSets, TLC

VARIABLES
    store,      \* the Map, as the sequence of its entries in insertion order
    now,        \* the value the last Date.now() read returned
    ticks,      \* how many times the clock has advanced
    calls,      \* how many public calls have been made (counted up to MaxCalls)
    last,       \* the last public call: its name, its arguments, whether the
                \* Map held an entry for the passcode, the clock value it read,
                \* what it returned; rep flips when a call repeats the call
                \* before it in all of these, so that every call changes last
    issued,     \* per passcode: the clock read of its most recent issue call, and
                \* how the duration asked for compares with zero and the cap
    consumed,   \* per passcode, since its last issue: "yes" once useOnce has
                \* returned true for it; "again" once it is issued after that,
                \* and "yesAgain" once useOnce has returned true for it then
    twin,       \* a second store, made by a separate createOtpStore() call and
                \* driven by the same clock; how it is used depends on the
                \* specification (see SpecTwin, SpecPair, SpecSweep)
    pending,    \* an issue call that has made its existence check and has
                \* not yet written its entry, if issue could be suspended
                \* there (see Yields)
    ui          \* the browser page that uses the store: activeOTPs, timers,
                \* the intervals and timeouts it has set, the demo button and
                \* the handleDemo runs in progress (see SpecUI)

vars == <<store, now, ticks, calls, last, issued, consumed, twin, pending, ui>>

----------------------------------------------------------------------------
(* Bounds and input sets *)

MaxTicks == 2

MaxCalls == 3

\* Time of the first Date.now() read of a run.
StartTime == 1000

\* The cap with the conversion of seconds to milliseconds left out.
MAX_MS_seconds == 5 * 60

MAX_MS == 5 * 60 * 1000

Passcodes == {123456, 999888}

\* 1 ms, and one millisecond short of the five-minute cap.
TickSteps == {1, MAX_MS - 1}

----------------------------------------------------------------------------
(* JavaScript values that can reach durationMs, and the arithmetic on them *)

Num(n) == [k |-> "num", v |-> n]

NaN == [k |-> "nan", v |-> 0]

Infinity == [k |-> "inf", v |-> 1]

NegInfinity == [k |-> "inf", v |-> -1]

\* A missing argument.
Undefined == [k |-> "undef", v |-> 0]

\* A string that is not a numeric literal, such as "abc".
Text == [k |-> "text", v |-> 0]

\* A Symbol, such as Symbol("x").
Symbol == [k |-> "symbol", v |-> 0]

\* Durations asked for: above the cap, unbounded, below the cap, zero, negative,
\* not a number.
Durations == { Num(2 * MAX_MS), Infinity, Num(1), Num(0), Num(-1), Text }

\* Every kind of value issue may be handed as durationMs.
AllDurations == Durations \cup { NaN, NegInfinity, Undefined, Symbol }

\* Number(x) throws a TypeError: a Symbol cannot be converted to a number.
Throws(x) == x.k = "symbol"

\* Number(x): a number is itself, undefined and a non-numeric string are NaN
\* (for a Symbol, see Throws).
Number(x) ==
    IF x.k \in {"num", "nan", "inf"} THEN x ELSE NaN

\* x || 0, for a number x: NaN and 0 are falsy.
OrZero(x) == IF x.k = "nan" \/ (x.k = "num" /\ x.v = 0) THEN Num(0) ELSE x

\* a < b on numbers: false when either is NaN.
JSLt(a, b) ==
    CASE a.k = "nan" \/ b.k = "nan" -> FALSE
      [] a.k = "num" /\ b.k = "num" -> a.v < b.v
      [] a.k = "inf" /\ b.k = "inf" -> a.v < b.v
      [] a.k = "inf" -> a.v < 0
      [] OTHER -> b.v > 0

\* a <= b
JSLe(a, b) == a.k # "nan" /\ b.k # "nan" /\ (a = b \/ JSLt(a, b))

\* a > b
JSGt(a, b) == JSLt(b, a)

\* Math.min(a, b)
MathMin(a, b) ==
    IF a.k = "nan" \/ b.k = "nan" THEN NaN
    ELSE IF JSLt(b, a) THEN b ELSE a

\* a + b on numbers
JSAdd(a, b) ==
    CASE a.k = "nan" \/ b.k = "nan" -> NaN
      [] a.k = "num" /\ b.k = "num" -> Num(a.v + b.v)
      [] a.k = "inf" /\ b.k = "inf" -> IF a.v = b.v THEN a ELSE NaN
      [] a.k = "inf" -> a
      [] OTHER -> b

----------------------------------------------------------------------------
(* The Map *)

\* store.has(key)
MapHas(s, key) == \E i \in 1..Len(s) : s[i].key = key

\* store.get(key), as the sequence of the (at most one) entry found
MapGet(s, key) == SelectSeq(s, LAMBDA e : e.key = key)

\* store.delete(key)
MapDelete(s, key) == SelectSeq(s, LAMBDA e : e.key # key)

\* The Map replaced by one that holds the new entry alone.
MapSet_alone(s, key, expiresAt, used) ==
    << [key |-> key, expiresAt |-> expiresAt, used |-> used] >>

\* store.set(key, value): an existing key keeps its place, a new one goes last
MapSet(s, key, expiresAt, used) ==
    LET e == [key |-> key, expiresAt |-> expiresAt, used |-> used]
    IN  IF MapHas(s, key)
        THEN [i \in 1..Len(s) |-> IF s[i].key = key THEN e ELSE s[i]]
        ELSE Append(s, e)

----------------------------------------------------------------------------
(* purgeExpired *)

\* The sweep's expiry test with < for <=.
Evictable_strict(e, t) == JSLt(e.expiresAt, Num(t)) \/ e.used

\* The sweep's test without `|| value.used`.
Evictable_expiredOnly(e, t) == JSLe(e.expiresAt, Num(t))

\* The sweep's test with the comparison the wrong way round.
Evictable_reversed(e, t) == JSLe(Num(t), e.expiresAt) \/ e.used

\* The sweep's test on one entry, at the clock value t the sweep has read.
Evictable(e, t) == JSLe(e.expiresAt, Num(t)) \/ e.used

RECURSIVE purgeFrom_skipping(_, _, _)
RECURSIVE purgeFrom(_, _, _)

\* The loop stepping over the entry that moves up into a deleted one's place.
purgeFrom_skipping(s, i, t) ==
    IF i > Len(s) THEN s
    ELSE IF Evictable(s[i], t)
         THEN purgeFrom_skipping(MapDelete(s, s[i].key), i + 1, t)
         ELSE purgeFrom_skipping(s, i + 1, t)

\* The for-of loop from position i on: deleting the entry under the iterator
\* moves the following entries up, and the iteration goes on with them.
purgeFrom(s, i, t) ==
    IF i > Len(s) THEN s
    ELSE IF Evictable(s[i], t)
         THEN purgeFrom(MapDelete(s, s[i].key), i, t)
         ELSE purgeFrom(s, i + 1, t)

\* A sweep that removes nothing.
purgeExpired_skipped(s, t) == s

purgeExpired(s, t) == purgeFrom(s, 1, t)

----------------------------------------------------------------------------
(* issue *)

\* The duration coerced but not capped.
cappedDuration_uncapped(durationMs) == OrZero(Number(durationMs))

\* Math.min(Number(durationMs) || 0, MAX_MS)
cappedDuration(durationMs) == MathMin(OrZero(Number(durationMs)), Num(MAX_MS))

\* The existence check as store.has(passcode) alone.
existedAndUnexpired_has(s, passcode, t) == MapHas(s, passcode)

\* existingEntry && existingEntry.expiresAt > now && !existingEntry.used,
\* on the swept store s and the clock value t that issue has read
existedAndUnexpired(s, passcode, t) ==
    /\ MapHas(s, passcode)
    /\ LET existingEntry == MapGet(s, passcode)[1]
       IN  JSGt(existingEntry.expiresAt, Num(t)) /\ ~existingEntry.used

\* The result taken from store.has(passcode) before the sweep has run.
issueResult_unswept(s, passcode, t1, t2) == MapHas(s, passcode)

\* What issue returns, on the store s it is called on, the sweep's clock read
\* t1 and its own clock read t2.
issueResult(s, passcode, t1, t2) ==
    existedAndUnexpired(purgeExpired(s, t1), passcode, t2)

\* The entry written with expiresAt: cappedDuration, the clock value left out.
issueSet_relative(s, passcode, durationMs, t) ==
    MapSet(s, passcode, cappedDuration(durationMs), FALSE)

\* The entry written with the later of the expiry it had and the new one.
issueSet_extendOnly(s, passcode, durationMs, t) ==
    LET expiresAt == JSAdd(Num(t), cappedDuration(durationMs))
    IN  IF MapHas(s, passcode) /\ JSGt(MapGet(s, passcode)[1].expiresAt, expiresAt)
        THEN MapSet(s, passcode, MapGet(s, passcode)[1].expiresAt, FALSE)
        ELSE MapSet(s, passcode, expiresAt, FALSE)

\* The entry written with used: true.
issueSet_used(s, passcode, durationMs, t) ==
    MapSet(s, passcode, JSAdd(Num(t), cappedDuration(durationMs)), TRUE)

\* store.set(passcode, {expiresAt: now + cappedDuration, used: false})
issueSet(s, passcode, durationMs, t) ==
    MapSet(s, passcode, JSAdd(Num(t), cappedDuration(durationMs)), FALSE)

----------------------------------------------------------------------------
(* useOnce *)

\* The expiry test with < for <=.
useOnceRejects_strict(entry, t) == JSLt(entry.expiresAt, Num(t)) \/ entry.used

\* entry.expiresAt <= now || entry.used
useOnceRejects(entry, t) == JSLe(entry.expiresAt, Num(t)) \/ entry.used

\* What useOnce returns, on the swept store s and its own clock read t.
useOnceResult(s, passcode, t) ==
    /\ MapHas(s, passcode)
    /\ ~useOnceRejects(MapGet(s, passcode)[1], t)

\* useOnce with entry.used = true left out.
useOnceStore_unmarked(s, passcode, t, t3) ==
    IF ~MapHas(s, passcode) THEN s
    ELSE IF useOnceRejects(MapGet(s, passcode)[1], t)
         THEN MapDelete(s, passcode)
         ELSE purgeExpired(s, t3)

\* useOnce with the store.delete(passcode) of a rejected entry left out.
useOnceStore_undeleted(s, passcode, t, t3) ==
    IF ~MapHas(s, passcode) THEN s
    ELSE LET entry == MapGet(s, passcode)[1]
         IN  IF useOnceRejects(entry, t)
             THEN s
             ELSE purgeExpired(MapSet(s, passcode, entry.expiresAt, TRUE), t3)

\* useOnce with the trailing purgeExpired() left out.
useOnceStore_unswept(s, passcode, t, t3) ==
    IF ~MapHas(s, passcode) THEN s
    ELSE LET entry == MapGet(s, passcode)[1]
         IN  IF useOnceRejects(entry, t)
             THEN MapDelete(s, passcode)
             ELSE MapSet(s, passcode, entry.expiresAt, TRUE)

\* The store useOnce leaves, on the swept store s, its own clock read t and
\* the clock read t3 of the trailing sweep.
useOnceStore(s, passcode, t, t3) ==
    IF ~MapHas(s, passcode) THEN s
    ELSE LET entry == MapGet(s, passcode)[1]
         IN  IF useOnceRejects(entry, t)
             THEN MapDelete(s, passcode)
             ELSE purgeExpired(MapSet(s, passcode, entry.expiresAt, TRUE), t3)

----------------------------------------------------------------------------
(* The state machine *)

\* How a requested duration compares with zero and with the cap.
Asked(d) ==
    CASE d.k = "inf" -> IF d.v > 0 THEN "over" ELSE "none"
      [] d.k = "num" -> IF d.v > MAX_MS THEN "over"
                        ELSE IF d.v > 0 THEN "within" ELSE "none"
      [] OTHER -> "none"

Never == [at |-> -1, asked |-> "none"]

NoCall ==
    [op |-> "none", code |-> 0, dur |-> Undefined, had |-> FALSE, t |-> StartTime,
     result |-> FALSE, threw |-> FALSE, rep |-> 0]

\* The record of a call, as last holds it.
Logged(op, code, dur, had, t, result) ==
    LET call == [op |-> op, code |-> code, dur |-> dur, had |-> had, t |-> t,
                 result |-> result, threw |-> (op = "issue" /\ Throws(dur)),
                 rep |-> last.rep]
    IN  [call EXCEPT !.rep = IF call = last THEN 1 - @ ELSE 0]

Counted(n) == IF n < MaxCalls THEN n + 1 ELSE n

\* No issue call suspended.
NoPending ==
    [on |-> FALSE, code |-> 0, dur |-> Undefined, had |-> FALSE, t |-> 0,
     existed |-> FALSE]

\* No second store in use.
NoTwin ==
    [on |-> FALSE, code |-> 0, stale |-> FALSE, called |-> FALSE, inst |-> 0,
     store |-> << >>, result |-> FALSE]

\* The label of the demo button in the page.
OriginalLabel == "Run Automated Demo"

\* The page when DOMContentLoaded has been handled: nothing tracked, no timer
\* set, the demo button enabled.
NoUI ==
    [activeOTPs |-> {}, timers |-> {}, intervals |-> {}, timeouts |-> {},
     nextId |-> 1, runs |-> << >>,
     btn |-> [disabled |-> FALSE, innerHTML |-> OriginalLabel],
     authResult |-> "none", secondAuth |-> "none",
     handled |-> "none", submits |-> 0, demos |-> 0, elapsed |-> 0]

Init ==
    /\ store = << >>
    /\ now = StartTime
    /\ ticks = 0
    /\ calls = 0
    /\ last = NoCall
    /\ issued = [c \in Passcodes |-> Never]
    /\ consumed = [c \in Passcodes |-> "no"]
    /\ twin = NoTwin
    /\ pending = NoPending
    /\ ui = NoUI

\* The clock advances between two public calls.
Tick(dt) ==
    /\ ticks < MaxTicks
    /\ now' = now + dt
    /\ ticks' = ticks + 1
    /\ UNCHANGED <<store, calls, last, issued, consumed>>

\* The clock advances a Date.now() read may see since the read before it.
Advances == IF ticks < MaxTicks THEN {0, 1} ELSE {0}

\* issue(passcode, durationMs); the clock advances by dt between the sweep's
\* Date.now() and issue's own.  When Number(durationMs) throws, the call ends
\* there: the sweep has run, nothing is read or written after it, and the
\* caller gets the exception in place of a result.
Issue(passcode, durationMs, dt) ==
    LET t1 == now
        swept == purgeExpired(store, t1)
        t2 == t1 + dt
    IN  IF Throws(durationMs)
        THEN /\ dt = 0
             /\ store' = swept
             /\ calls' = Counted(calls)
             /\ last' = Logged("issue", passcode, durationMs,
                               MapHas(store, passcode), t1, FALSE)
             /\ UNCHANGED <<now, ticks, issued, consumed>>
        ELSE /\ dt \in Advances
             /\ store' = issueSet(swept, passcode, durationMs, t2)
             /\ now' = t2
             /\ ticks' = ticks + dt
             /\ calls' = Counted(calls)
             /\ last' = Logged("issue", passcode, durationMs,
                               MapHas(store, passcode), t2,
                               issueResult(store, passcode, t1, t2))
             /\ issued' = [issued EXCEPT ![passcode] =
                             [at |-> t2, asked |-> Asked(durationMs)]]
             /\ consumed' = [consumed EXCEPT ![passcode] =
                               IF @ \in {"yes", "yesAgain"} THEN "again" ELSE "no"]

\* useOnce(passcode); the clock advances by dt between the first sweep's
\* Date.now() and useOnce's own (read only when an entry is found), and by dt3
\* between that and the trailing sweep's (read only when the login is accepted).
UseOnce(passcode, dt, dt3) ==
    LET t1 == now
        swept == purgeExpired(store, t1)
        found == MapHas(swept, passcode)
        t2 == t1 + dt
        ok == useOnceResult(swept, passcode, t2)
        t3 == t2 + dt3
    IN  /\ dt \in Advances
        /\ dt3 \in Advances
        /\ dt + dt3 <= 1
        /\ ~found => dt = 0
        /\ ~ok => dt3 = 0
        /\ store' = useOnceStore(swept, passcode, t2, t3)
        /\ now' = t3
        /\ ticks' = ticks + dt + dt3
        /\ calls' = Counted(calls)
        /\ last' = Logged("useOnce", passcode, Undefined, MapHas(store, passcode),
                          t2, ok)
        /\ issued' = issued
        /\ consumed' = IF passcode \notin DOMAIN consumed THEN consumed
                       ELSE [consumed EXCEPT ![passcode] =
                               IF ~ok THEN @
                               ELSE IF @ = "again" THEN "yesAgain" ELSE "yes"]

\* One step of a caller that uses the passcodes P and the durations D.
Step(P, D) ==
    \/ \E dt \in TickSteps : Tick(dt)
    \/ \E c \in P, d \in D, dt \in {0, 1} : Issue(c, d, dt)
    \/ \E c \in P, dt \in {0, 1}, dt3 \in {0, 1} : UseOnce(c, dt, dt3)

Next == Step(Passcodes, Durations) /\ UNCHANGED <<twin, pending, ui>>

Spec == Init /\ [][Next]_vars

\* One passcode, issued with every kind of duration.
NextArgs == Step({123456}, AllDurations) /\ UNCHANGED <<twin, pending, ui>>

SpecArgs == Init /\ [][NextArgs]_vars

\* Two passcodes, issued with a duration that lasts, and with the kinds of
\* duration that do not: zero, negative, not a number.
CycleDurations == { Num(1), Num(0), Num(-1), Text }

NextCycle == Step(Passcodes, CycleDurations) /\ UNCHANGED <<twin, pending, ui>>

SpecCycle == Init /\ [][NextCycle]_vars

----------------------------------------------------------------------------
(* Two stores with the same history but for one passcode *)

\* The store issue leaves, on the store s it is called on.
issueStore(s, passcode, durationMs, t1, t2) ==
    IF Throws(durationMs) THEN purgeExpired(s, t1)
    ELSE issueSet(purgeExpired(s, t1), passcode, durationMs, t2)

\* The second store is what the first would be had passcode c never been
\* issued: a copy of it without the entry of c, taken when c has been issued
\* and is no longer live (consumed, or expired; its entry may still be in the
\* Map, waiting for the next sweep).
Fork(c) ==
    /\ ~twin.on
    /\ issued[c] # Never
    /\ MapHas(store, c) => Evictable(MapGet(store, c)[1], now)
    /\ twin' = [on |-> TRUE, code |-> c, stale |-> MapHas(store, c),
                called |-> FALSE, inst |-> 0, store |-> MapDelete(store, c),
                result |-> FALSE]
    /\ UNCHANGED <<store, now, ticks, calls, last, issued, consumed, pending, ui>>

\* The same issue call made on both stores, at the same clock values.
TwinIssue(passcode, durationMs, dt) ==
    /\ twin.on
    /\ Issue(passcode, durationMs, dt)
    /\ UNCHANGED <<pending, ui>>
    /\ twin' = [twin EXCEPT
                  !.called = TRUE,
                  !.store = issueStore(@, passcode, durationMs, now, now + dt),
                  !.result = ~Throws(durationMs)
                             /\ issueResult(twin.store, passcode, now, now + dt)]

\* The same useOnce call made on both stores, at the same clock values.
TwinUseOnce(passcode, dt, dt3) ==
    /\ twin.on
    /\ UseOnce(passcode, dt, dt3)
    /\ UNCHANGED <<pending, ui>>
    /\ LET swept == purgeExpired(twin.store, now)
       IN  twin' = [twin EXCEPT
                     !.called = TRUE,
                     !.store = useOnceStore(swept, passcode, now + dt,
                                            now + dt + dt3),
                     !.result = useOnceResult(swept, passcode, now + dt)]

\* Durations used with the two stores: one that ends with the next
\* millisecond, one that has ended when issue returns.
TwinDurations == { Num(1), Num(0) }

NextTwin ==
    \/ ~twin.on /\ Step(Passcodes, TwinDurations) /\ UNCHANGED <<twin, pending, ui>>
    \/ \E c \in Passcodes : Fork(c)
    \/ twin.on /\ \E dt \in TickSteps : Tick(dt) /\ UNCHANGED <<twin, pending, ui>>
    \/ \E c \in Passcodes, d \in TwinDurations, dt \in {0, 1} :
           TwinIssue(c, d, dt)
    \/ \E c \in Passcodes, dt \in {0, 1}, dt3 \in {0, 1} : TwinUseOnce(c, dt, dt3)

SpecTwin == Init /\ [][NextTwin]_vars

----------------------------------------------------------------------------
(* Two independent instances *)

\* Both instances holding the one Map of the first.
MapOf_shared(inst) == "store"

\* The Map an instance works on: each createOtpStore() call runs new Map(), so
\* instance 1 has the Map held in store and instance 2 the one held in twin.
MapOf(inst) == IF inst = 1 THEN "store" ELSE "twin"

Instances == {1, 2}

\* Durations used with two instances: above the cap, 1 ms, zero.
PairDurations == { Num(2 * MAX_MS), Num(1), Num(0) }

\* issue(passcode, durationMs) called on instance inst.  The history variables
\* last, issued and consumed follow the calls made on instance 1; of the calls
\* on instance 2, twin keeps the result.
PairIssue(inst, passcode, durationMs, dt) ==
    IF MapOf(inst) = "store"
    THEN /\ Issue(passcode, durationMs, dt)
         /\ twin' = [twin EXCEPT !.inst = inst]
         /\ UNCHANGED <<pending, ui>>
    ELSE /\ dt \in Advances
         /\ twin' = [twin EXCEPT
                       !.inst = inst,
                       !.store = issueStore(@, passcode, durationMs, now, now + dt),
                       !.result = ~Throws(durationMs)
                                  /\ issueResult(twin.store, passcode, now, now + dt)]
         /\ now' = now + dt
         /\ ticks' = ticks + dt
         /\ calls' = Counted(calls)
         /\ UNCHANGED <<store, last, issued, consumed, pending, ui>>

\* useOnce(passcode) called on instance inst.
PairUseOnce(inst, passcode, dt, dt3) ==
    IF MapOf(inst) = "store"
    THEN /\ UseOnce(passcode, dt, dt3)
         /\ twin' = [twin EXCEPT !.inst = inst]
         /\ UNCHANGED <<pending, ui>>
    ELSE LET swept == purgeExpired(twin.store, now)
             ok == useOnceResult(swept, passcode, now + dt)
         IN  /\ dt \in Advances
             /\ dt3 \in Advances
             /\ dt + dt3 <= 1
             /\ ~MapHas(swept, passcode) => dt = 0
             /\ ~ok => dt3 = 0
             /\ twin' = [twin EXCEPT
                           !.inst = inst,
                           !.store = useOnceStore(swept, passcode, now + dt,
                                                  now + dt + dt3),
                           !.result = ok]
             /\ now' = now + dt + dt3
             /\ ticks' = ticks + dt + dt3
             /\ calls' = Counted(calls)
             /\ UNCHANGED <<store, last, issued, consumed, pending, ui>>

NextPair ==
    \/ \E dt \in TickSteps : Tick(dt) /\ UNCHANGED <<twin, pending, ui>>
    \/ \E i \in Instances, d \in PairDurations, dt \in {0, 1} :
           PairIssue(i, 123456, d, dt)
    \/ \E i \in Instances, dt \in {0, 1}, dt3 \in {0, 1} :
           PairUseOnce(i, 123456, dt, dt3)

SpecPair == Init /\ [][NextPair]_vars

----------------------------------------------------------------------------
(* Callers that compete for one passcode *)

\* issue as an async function that awaits between its check and its write.
Yields_async == TRUE

\* Whether issue gives up control between its existence check and its
\* store.set: it is a synchronous function with no await, callback or other
\* call out of the module between the two, so it runs to completion.
Yields == FALSE

\* Durations the competing callers ask for.
RaceDurations == { Num(2 * MAX_MS), Num(1), Num(0) }

\* A caller calls issue(passcode, durationMs) while other callers have calls of
\* their own to make.  Where issue cannot be suspended this is the whole call.
\* Where it can, the call either runs through, or stops after its existence
\* check (keeping its locals in pending), or is the suspended call going on to
\* write its entry and return.
RaceIssue(passcode, durationMs, dt) ==
    IF ~Yields
    THEN Issue(passcode, durationMs, dt) /\ UNCHANGED <<twin, pending, ui>>
    ELSE \/ Issue(passcode, durationMs, dt) /\ UNCHANGED <<twin, pending, ui>>
         \/ /\ ~pending.on
            /\ ~Throws(durationMs)
            /\ dt \in Advances
            /\ store' = purgeExpired(store, now)
            /\ now' = now + dt
            /\ ticks' = ticks + dt
            /\ pending' = [on |-> TRUE, code |-> passcode, dur |-> durationMs,
                           had |-> MapHas(store, passcode), t |-> now + dt,
                           existed |-> issueResult(store, passcode, now, now + dt)]
            /\ UNCHANGED <<calls, last, issued, consumed, twin, ui>>
         \/ /\ pending.on
            /\ passcode = pending.code /\ durationMs = pending.dur /\ dt = 0
            /\ store' = issueSet(store, passcode, durationMs, pending.t)
            /\ calls' = Counted(calls)
            /\ last' = Logged("issue", passcode, durationMs, pending.had,
                              pending.t, pending.existed)
            /\ issued' = [issued EXCEPT ![passcode] =
                            [at |-> pending.t, asked |-> Asked(durationMs)]]
            /\ consumed' = [consumed EXCEPT ![passcode] =
                              IF @ \in {"yes", "yesAgain"} THEN "again" ELSE "no"]
            /\ pending' = NoPending
            /\ UNCHANGED <<now, ticks, twin, ui>>

NextRace ==
    \/ \E dt \in TickSteps : Tick(dt) /\ UNCHANGED <<twin, pending, ui>>
    \/ \E d \in RaceDurations, dt \in {0, 1} : RaceIssue(123456, d, dt)
    \/ \E dt \in {0, 1}, dt3 \in {0, 1} :
           UseOnce(123456, dt, dt3) /\ UNCHANGED <<twin, pending, ui>>

SpecRace == Init /\ [][NextRace]_vars

----------------------------------------------------------------------------
(* A clock that keeps advancing and callers that keep calling *)

\* Durations asked for while the clock keeps advancing.
LiveDurations == { Num(2 * MAX_MS), Num(1) }

\* The clock advances by the longest time any entry can last.  (Taken only
\* while an entry is still to expire, which keeps the clock values finite in
\* number without ever stopping the clock before an expiry.)
Elapse ==
    /\ \E i \in 1..Len(store) : JSGt(store[i].expiresAt, Num(now))
    /\ now' = now + MAX_MS
    /\ UNCHANGED <<store, ticks, calls, last, issued, consumed, twin, pending, ui>>

\* issue, called while the callers have calls left to make.
LiveIssue(passcode, durationMs, dt) ==
    /\ calls < MaxCalls
    /\ Issue(passcode, durationMs, dt)
    /\ UNCHANGED <<twin, pending, ui>>

\* useOnce, called at any time.
LiveUseOnce(passcode, dt, dt3) ==
    /\ UseOnce(passcode, dt, dt3)
    /\ UNCHANGED <<twin, pending, ui>>

\* Some public call is made (the clock advancing between calls only).
SomeCall ==
    \/ \E c \in Passcodes, d \in LiveDurations : LiveIssue(c, d, 0)
    \/ \E c \in Passcodes : LiveUseOnce(c, 0, 0)

NextLive == Elapse \/ SomeCall

\* The clock keeps advancing and calls keep being made.
SpecLive ==
    Init /\ [][NextLive]_vars /\ WF_vars(Elapse) /\ WF_vars(SomeCall)

----------------------------------------------------------------------------
(* The sweep alone, on any Map *)

SweepCodes == {123456, 999888, 555000}

\* Entries a Map may hold when the sweep runs at StartTime: expired long ago
\* (issued with -Infinity), expired 1 ms ago, expiring now, expiring in 1 ms;
\* used or not.
SweepEntries ==
    [key : SweepCodes,
     expiresAt : {NegInfinity, Num(StartTime - 1), Num(StartTime),
                  Num(StartTime + 1)},
     used : BOOLEAN]

\* Maps of up to three entries, in every insertion order.
SweepMaps ==
    {s \in UNION {[1..n -> SweepEntries] : n \in 0..Cardinality(SweepCodes)} :
        \A i, j \in 1..Len(s) : i # j => s[i].key # s[j].key}

InitSweep ==
    /\ store \in SweepMaps
    /\ now = StartTime
    /\ ticks = 0
    /\ calls = 0
    /\ last = NoCall
    /\ issued = [c \in Passcodes |-> Never]
    /\ consumed = [c \in Passcodes |-> "no"]
    /\ twin = NoTwin
    /\ pending = NoPending
    /\ ui = NoUI

\* purgeExpired() runs with the clock at now; twin keeps the Map it ran on.
Sweep ==
    /\ store' = purgeExpired(store, now)
    /\ twin' = [twin EXCEPT !.called = TRUE, !.store = store]
    /\ UNCHANGED <<now, ticks, calls, last, issued, consumed, pending, ui>>

SpecSweep == InitSweep /\ [][Sweep]_vars

----------------------------------------------------------------------------
(* The second createOtpStore definition, run beside the first *)

\* The second definition's sweep: the same loop over the same test.
purgeExpired2(s, t) == purgeFrom(s, 1, t)

\* Math.min(Number(durationMs) || 0, MAX_MS)
capped(durationMs) == MathMin(OrZero(Number(durationMs)), Num(MAX_MS))

\* store.has(passcode), on the swept store s; issue's own clock read t is not
\* consulted.
existedAndUnexpired2(s, passcode, t) == MapHas(s, passcode)

\* What the second definition's issue returns; t1 is the sweep's clock read,
\* t2 issue's own.
issueResult2(s, passcode, t1, t2) ==
    existedAndUnexpired2(purgeExpired2(s, t1), passcode, t2)

\* store.set(passcode, { expiresAt: now + capped, used: false })
issueSet2(s, passcode, durationMs, t) ==
    MapSet(s, passcode, JSAdd(Num(t), capped(durationMs)), FALSE)

\* What the second definition's useOnce returns, on the swept store s.
useOnceResult2(s, passcode, t) ==
    /\ MapHas(s, passcode)
    /\ LET entry == MapGet(s, passcode)[1]
       IN  ~(JSLe(entry.expiresAt, Num(t)) \/ entry.used)

\* The store the second definition's useOnce leaves, on the swept store s.
useOnceStore2(s, passcode, t, t3) ==
    IF ~MapHas(s, passcode) THEN s
    ELSE LET entry == MapGet(s, passcode)[1]
         IN  IF JSLe(entry.expiresAt, Num(t)) \/ entry.used
             THEN MapDelete(s, passcode)
             ELSE purgeExpired2(MapSet(s, passcode, entry.expiresAt, TRUE), t3)

\* The same issue call made on a store of each definition, with the same
\* clock reads; twin holds the store of the second definition.
BothIssue(passcode, durationMs, dt) ==
    /\ Issue(passcode, durationMs, dt)
    /\ UNCHANGED <<pending, ui>>
    /\ twin' = [twin EXCEPT
                  !.on = TRUE,
                  !.called = TRUE,
                  !.inst = 2,
                  !.code = passcode,
                  !.store = issueSet2(purgeExpired2(@, now), passcode,
                                      durationMs, now + dt),
                  !.result = issueResult2(twin.store, passcode, now, now + dt)]

\* The same useOnce call made on a store of each definition.
BothUseOnce(passcode, dt, dt3) ==
    /\ UseOnce(passcode, dt, dt3)
    /\ UNCHANGED <<pending, ui>>
    /\ LET swept == purgeExpired2(twin.store, now)
       IN  twin' = [twin EXCEPT
                     !.on = TRUE,
                     !.called = TRUE,
                     !.inst = 2,
                     !.code = passcode,
                     !.store = useOnceStore2(swept, passcode, now + dt,
                                             now + dt + dt3),
                     !.result = useOnceResult2(swept, passcode, now + dt)]

\* Durations used with the two definitions: over the cap, ending with the
\* next millisecond, ended when issue returns.
BothDurations == { Num(2 * MAX_MS), Num(1), Num(0) }

NextBoth ==
    \/ \E dt \in TickSteps : Tick(dt) /\ UNCHANGED <<twin, pending, ui>>
    \/ \E c \in Passcodes, d \in BothDurations, dt \in {0, 1} :
           BothIssue(c, d, dt)
    \/ \E c \in Passcodes, dt \in {0, 1}, dt3 \in {0, 1} : BothUseOnce(c, dt, dt3)

SpecBoth == Init /\ [][NextBoth]_vars

----------------------------------------------------------------------------
(* The browser page: forms, the activeOTPs mirror, timers and the demo *)

\* Form submissions in a run of the page, setInterval periods that pass,
\* clicks on the demo button.
MaxSubmits == 2

MaxPeriods == 3

MaxDemos == 1

\* The period of the interval set by addToActiveOTPs, in ms; the clock of the
\* page advances by one period at a time, and every duration and delay used
\* is a multiple of it.
Period == 1000

demoPasscode == 999888

demoDuration == 30000

RunningLabel == "Running Demo..."

\* What is typed into the passcode fields, as characters.
PasscodeTexts ==
    { << >>, <<"a", "b">>, <<"0">>, <<"5">>, <<"-", "5">>,
      <<"1", "2", "3", "4", "5", "6">>,
      <<"9", "9", "9", "8", "8", "8">>,
      <<"1", "2", "3", "4", "5", "6", "7", "8", "9">> }

\* The value of the duration select: custom, or a preset number of ms.
Custom == <<"c", "u", "s", "t", "o", "m">>

DurationChoices == { Custom, <<"3", "0", "0", "0", "0">> }

\* What is typed into the custom duration field.
CustomTexts == { << >>, <<"5", "0", "0">>, <<"1", "0", "0", "0">>,
                 <<"2", "0", "0", "0">> }

\* The digit a character stands for, -1 for any other character.
DigitOf(ch) ==
    CASE ch = "0" -> 0 [] ch = "1" -> 1 [] ch = "2" -> 2 [] ch = "3" -> 3
      [] ch = "4" -> 4 [] ch = "5" -> 5 [] ch = "6" -> 6 [] ch = "7" -> 7
      [] ch = "8" -> 8 [] ch = "9" -> 9 [] OTHER -> -1

RECURSIVE parseDigits(_, _, _)
\* The number written by the digits of str from position i up to the first
\* character that is not a digit, after acc.
parseDigits(str, i, acc) ==
    IF i > Len(str) \/ DigitOf(str[i]) < 0 THEN acc
    ELSE parseDigits(str, i + 1, acc * 10 + DigitOf(str[i]))

\* parseInt(str): an optional sign, then the leading digits; NaN without a
\* leading digit.
parseInt(str) ==
    LET signed == Len(str) > 0 /\ str[1] \in {"-", "+"}
        body == IF signed THEN Tail(str) ELSE str
    IN  IF Len(body) = 0 \/ DigitOf(body[1]) < 0 THEN NaN
        ELSE IF signed /\ str[1] = "-" THEN Num(0 - parseDigits(body, 1, 0))
        ELSE Num(parseDigits(body, 1, 0))

\* !x for a number x
Not(x) == x.k \in {"nan", "undef"} \/ (x.k = "num" /\ x.v = 0)

\* !passcode || passcode < 100000 || passcode > 99999999
passcodeRejected(passcode) ==
    Not(passcode) \/ JSLt(passcode, Num(100000)) \/ JSGt(passcode, Num(99999999))

\* !duration || duration < 1000 || duration > 300000
durationRejected(duration) ==
    Not(duration) \/ JSLt(duration, Num(1000)) \/ JSGt(duration, Num(300000))

ActiveHas(u, passcode) == \E m \in u.activeOTPs : m.passcode = passcode

ActiveGet(u, passcode) == CHOOSE m \in u.activeOTPs : m.passcode = passcode

\* clearInterval(timers.get(passcode)) when timers.has(passcode): the
\* intervals left running.
clearInterval(u, passcode) ==
    { i \in u.intervals :
        \A x \in u.timers : x.passcode = passcode => i.id # x.id }

\* addToActiveOTPs with the clearInterval of the existing timer left out.
addToActiveOTPs_uncleared(u, passcode, duration, wasExisting, t) ==
    [u EXCEPT
       !.activeOTPs = { m \in @ : m.passcode # passcode } \cup
                      { [passcode |-> passcode, duration |-> duration,
                         issuedAt |-> t, expiresAt |-> t + duration,
                         used |-> FALSE, wasExisting |-> wasExisting] },
       !.intervals = @ \cup
                     { [id |-> u.nextId, passcode |-> passcode, due |-> t + Period] },
       !.timers = { x \in @ : x.passcode # passcode } \cup
                  { [passcode |-> passcode, id |-> u.nextId] },
       !.timeouts = @ \cup
                    { [id |-> u.nextId, passcode |-> passcode, due |-> t + duration] },
       !.nextId = @ + 1]

\* addToActiveOTPs(passcode, duration, wasExisting), with Date.now() = t: the
\* running interval of the passcode is cleared, the entry is written, a new
\* interval is set and recorded in timers, and the expiry timeout is set.
addToActiveOTPs(u, passcode, duration, wasExisting, t) ==
    [u EXCEPT
       !.activeOTPs = { m \in @ : m.passcode # passcode } \cup
                      { [passcode |-> passcode, duration |-> duration,
                         issuedAt |-> t, expiresAt |-> t + duration,
                         used |-> FALSE, wasExisting |-> wasExisting] },
       !.intervals = clearInterval(u, passcode) \cup
                     { [id |-> u.nextId, passcode |-> passcode, due |-> t + Period] },
       !.timers = { x \in @ : x.passcode # passcode } \cup
                  { [passcode |-> passcode, id |-> u.nextId] },
       !.timeouts = @ \cup
                    { [id |-> u.nextId, passcode |-> passcode, due |-> t + duration] },
       !.nextId = @ + 1]

\* The removal both callbacks make: activeOTPs.delete(passcode), and when
\* timers.has(passcode), clearInterval(timers.get(passcode)) and
\* timers.delete(passcode).
removeOTP(u, passcode) ==
    [u EXCEPT
       !.activeOTPs = { m \in @ : m.passcode # passcode },
       !.intervals = clearInterval(u, passcode),
       !.timers = { x \in @ : x.passcode # passcode }]

\* The callback of the expiry setTimeout set by addToActiveOTPs.
expiryCleanup(u, passcode) ==
    IF ActiveHas(u, passcode) THEN removeOTP(u, passcode) ELSE u

\* updateOTPTimer(passcode), with Date.now() = t.
updateOTPTimer(u, passcode, t) ==
    IF ~ActiveHas(u, passcode) THEN u
    ELSE LET otpData == ActiveGet(u, passcode)
             remaining == IF otpData.expiresAt - t > 0
                          THEN otpData.expiresAt - t ELSE 0
         IN  IF remaining = 0 \/ otpData.used
             THEN removeOTP(u, passcode)
             ELSE u

\* otpData.used = true on the entry of passcode, when activeOTPs has one.
markUsed(u, passcode) ==
    [u EXCEPT !.activeOTPs =
       { IF m.passcode = passcode THEN [m EXCEPT !.used = TRUE] ELSE m : m \in @ }]

\* The submit handler returns at a failed validation, after showToast.
Refused ==
    /\ ui' = [ui EXCEPT !.submits = @ + 1, !.handled = "refused"]
    /\ UNCHANGED <<store, now, ticks, calls, last, issued, consumed, twin, pending>>

\* handleIssueOTP() with text in the passcode field, choice selected as
\* duration and custom in the custom duration field.
handleIssueOTP(text, choice, custom) ==
    LET passcode == parseInt(text)
        duration == IF choice = Custom THEN parseInt(custom) ELSE parseInt(choice)
    IN  /\ ui.submits < MaxSubmits
        /\ IF passcodeRejected(passcode)
              \/ (choice = Custom /\ durationRejected(duration))
           THEN Refused
           ELSE /\ Issue(passcode.v, duration, 0)
                /\ ui' = [addToActiveOTPs(ui, passcode.v, duration.v,
                                          issueResult(store, passcode.v, now, now),
                                          now)
                          EXCEPT !.submits = @ + 1, !.handled = "issue"]
                /\ UNCHANGED <<twin, pending>>

\* handleAuthentication() with text in the passcode field.
handleAuthentication(text) ==
    LET passcode == parseInt(text)
        isValid == useOnceResult(purgeExpired(store, now), passcode.v, now)
    IN  /\ ui.submits < MaxSubmits
        /\ IF Not(passcode)
           THEN Refused
           ELSE /\ UseOnce(passcode.v, 0, 0)
                /\ ui' = [(IF isValid THEN markUsed(ui, passcode.v) ELSE ui)
                          EXCEPT !.submits = @ + 1, !.handled = "useOnce"]
                /\ UNCHANGED <<twin, pending>>

\* Only ui changes.
UIOnly == UNCHANGED <<store, now, ticks, calls, last, issued, consumed, twin, pending>>

\* An interval set by addToActiveOTPs fires: updateOTPTimer(passcode).
IntervalFires ==
    \E i \in ui.intervals :
       /\ i.due <= now
       /\ ui' = [updateOTPTimer(ui, i.passcode, now) EXCEPT
                   !.intervals = { IF j = i THEN [j EXCEPT !.due = @ + Period] ELSE j
                                   : j \in @ }]
       /\ UIOnly

\* An expiry timeout set by addToActiveOTPs fires.
TimeoutFires ==
    \E to \in ui.timeouts :
       /\ to.due <= now
       /\ ui' = [expiryCleanup(ui, to.passcode) EXCEPT !.timeouts = @ \ {to}]
       /\ UIOnly

\* handleDemo's finally block, for the run at position k.
demoFinally(u, k) ==
    [u EXCEPT !.btn = [disabled |-> FALSE, innerHTML |-> u.runs[k].originalText],
              !.runs = SubSeq(@, 1, k - 1) \o SubSeq(@, k + 1, Len(@))]

\* handleDemo's lock with btn.disabled = true left out.
demoLock_open(btn) == [btn EXCEPT !.innerHTML = RunningLabel]

\* btn.disabled = true; btn.innerHTML = '... Running Demo...'
demoLock(btn) == [disabled |-> TRUE, innerHTML |-> RunningLabel]

\* The run at position k of ui.runs goes on to pc, after a delay of ms.
Awaits(u, k, pc, ms) ==
    [u EXCEPT !.runs[k] = [@ EXCEPT !.pc = pc, !.due = now + ms]]

\* A click on the demo button, which the browser delivers only while the
\* button is enabled: handleDemo() up to its first await delay(1000).  When
\* throws, showToast throws and the catch and finally blocks end the run.
handleDemo(throws) ==
    LET originalText == ui.btn.innerHTML
        started == [ui EXCEPT
                      !.btn = demoLock(@),
                      !.runs = Append(@, [pc |-> 1, due |-> now + 1000,
                                          originalText |-> originalText]),
                      !.demos = @ + 1,
                      !.authResult = "none",
                      !.secondAuth = "none"]
    IN  /\ ~ui.btn.disabled
        /\ ui.demos < MaxDemos
        /\ ui' = IF throws THEN demoFinally(started, Len(started.runs))
                 ELSE started
        /\ UIOnly

\* The run at position k can go on: its delay has elapsed.
Resumes(k, pcs) ==
    /\ k \in 1..Len(ui.runs)
    /\ ui.runs[k].pc \in pcs
    /\ ui.runs[k].due <= now

\* Step 1 of the demo: issue, addToActiveOTPs, await delay(2000).
DemoIssues(k) ==
    /\ Resumes(k, {1})
    /\ Issue(demoPasscode, Num(demoDuration), 0)
    /\ ui' = Awaits(addToActiveOTPs(ui, demoPasscode, demoDuration, FALSE, now),
                    k, 2, 2000)
    /\ UNCHANGED <<twin, pending>>

\* A showToast between two delays: await delay(1000).
DemoToasts(k) ==
    /\ Resumes(k, {2, 4})
    /\ ui' = Awaits(ui, k, ui.runs[k].pc + 1, 1000)
    /\ UIOnly

\* Step 2 of the demo: authResult = otpStore.useOnce(demoPasscode), the entry
\* of activeOTPs marked used when it is true, await delay(2000).
DemoAuthenticates(k) ==
    LET authResult == useOnceResult(purgeExpired(store, now), demoPasscode, now)
    IN  /\ Resumes(k, {3})
        /\ UseOnce(demoPasscode, 0, 0)
        /\ ui' = [Awaits(IF authResult THEN markUsed(ui, demoPasscode) ELSE ui,
                         k, 4, 2000)
                  EXCEPT !.authResult = IF authResult THEN "true" ELSE "false"]
        /\ UNCHANGED <<twin, pending>>

\* Step 3 of the demo: secondAuth = otpStore.useOnce(demoPasscode), then the
\* finally block.
DemoReuses(k) ==
    LET secondAuth == useOnceResult(purgeExpired(store, now), demoPasscode, now)
    IN  /\ Resumes(k, {5})
        /\ UseOnce(demoPasscode, 0, 0)
        /\ ui' = [demoFinally(ui, k)
                  EXCEPT !.secondAuth = IF secondAuth THEN "true" ELSE "false"]
        /\ UNCHANGED <<twin, pending>>

\* The first statement after a delay throws: the catch block, then the
\* finally block.
DemoThrows(k) ==
    /\ Resumes(k, 1..5)
    /\ ui' = demoFinally(ui, k)
    /\ UIOnly

\* A callback is due: an interval, an expiry timeout or the end of a delay.
Due ==
    \/ \E i \in ui.intervals : i.due <= now
    \/ \E to \in ui.timeouts : to.due <= now
    \/ \E k \in 1..Len(ui.runs) : ui.runs[k].due <= now

\* The clock of the page advances by one period, when every callback that
\* was due has run.
PeriodPasses ==
    /\ ~Due
    /\ ui.elapsed < MaxPeriods \/ ui.runs # << >>
    /\ now' = now + Period
    /\ ui' = [ui EXCEPT !.elapsed = IF @ < MaxPeriods THEN @ + 1 ELSE @]
    /\ UNCHANGED <<store, ticks, calls, last, issued, consumed, twin, pending>>

\* A demo run goes on.
DemoSteps ==
    \E k \in 1..2 :
       DemoIssues(k) \/ DemoToasts(k) \/ DemoAuthenticates(k) \/ DemoReuses(k)

\* A form is submitted, with a passcode text of T, a duration choice of C and
\* a custom duration text of K.
Submits(T, C, K) ==
    \/ \E text \in T, choice \in C, custom \in K :
           handleIssueOTP(text, choice, custom)
    \/ \E text \in T : handleAuthentication(text)

\* The page with its two forms and the timers they set.
NextUI ==
    \/ Submits(PasscodeTexts, DurationChoices, CustomTexts)
    \/ IntervalFires
    \/ TimeoutFires
    \/ PeriodPasses

SpecUI == Init /\ [][NextUI]_vars

\* What the user types beside a demo: the passcode of the demo, with the
\* custom duration of two periods.
DemoTexts == { <<"9", "9", "9", "8", "8", "8">> }

DemoCustoms == { <<"2", "0", "0", "0">> }

\* Time is followed while a demo runs.
DemoPeriodPasses == ui.runs # << >> /\ PeriodPasses

\* The page with the demo button, its forms still in use.
NextDemo ==
    \/ Submits(DemoTexts, { Custom }, DemoCustoms)
    \/ \E throws \in BOOLEAN : handleDemo(throws)
    \/ DemoSteps
    \/ \E k \in 1..2 : DemoThrows(k)
    \/ IntervalFires
    \/ TimeoutFires
    \/ DemoPeriodPasses

\* The event loop runs every callback that is due, and time passes.
SpecDemo ==
    /\ Init
    /\ [][NextDemo]_vars
    /\ WF_vars(DemoSteps)
    /\ WF_vars(IntervalFires)
    /\ WF_vars(TimeoutFires)
    /\ WF_vars(DemoPeriodPasses)

----------------------------------------------------------------------------
(* Vocabulary of the properties *)

\* A live entry for passcode c at clock value t: present, t < expiresAt, not used.
Live(s, c, t) ==
    \E i \in 1..Len(s) :
        /\ s[i].key = c
        /\ s[i].expiresAt.k = "num"
        /\ t < s[i].expiresAt.v
        /\ ~s[i].used

\* The step is a public call op(c, ...), whichever its arguments: last'.code is
\* its passcode, last'.dur its duration, last'.t the clock value it read (its
\* own Date.now(), or the sweep's when useOnce finds no entry).
Call(op) == last' # last /\ last'.op = op

\* The last call was op(c, ...) and returned r.
Returned(op, c, r) == last.op = op /\ last.code = c /\ last.result = r

Accepted == {"yes", "yesAgain"}

\* d is a number greater than 0.
Positive(d) == d.k \in {"num", "inf"} /\ d.v > 0

\* The duration d has not elapsed e milliseconds after it started.
Within(e, d) == (d.k = "num" /\ e < d.v) \/ (d.k = "inf" /\ d.v > 0)

\* The call before this one was issue on the same passcode.
FollowsIssue == last.op = "issue" /\ last.code = last'.code

\* The entries of the Map s, whatever their order.
Entries(s) == {s[i] : i \in 1..Len(s)}

\* No entry of s is used, or has its expiry at or before t.
Clean(s, t) ==
    \A i \in 1..Len(s) :
        ~s[i].used /\ s[i].expiresAt.k = "num" /\ s[i].expiresAt.v > t

----------------------------------------------------------------------------
(* C1: single use.  Once a useOnce(c) call has returned true, every later      *)
(* useOnce(c) call returns false until c is issued again, however the clock   *)
(* advances; so between two issue(c) calls at most one useOnce(c) returns     *)
(* true.                                                                     *)
C1_SingleUse ==
    [][(Call("useOnce") /\ consumed[last'.code] \in Accepted)
           => last'.result = FALSE]_vars

\* A useOnce(c) has been rejected after an accepted one, with the clock advanced
\* since c was issued.
C1_Witness ==
    \E c \in Passcodes :
        /\ Returned("useOnce", c, FALSE)
        /\ consumed[c] \in Accepted
        /\ last.t > issued[c].at

(* C2: useOnce(c) returns true exactly when the store holds an entry for c     *)
(* with now < expiresAt and used = false, now being the clock value useOnce  *)
(* reads; with no entry, at now >= expiresAt (the instant now = expiresAt    *)
(* included) or with a used entry it returns false.                          *)
C2_UseOnceResult ==
    [][Call("useOnce")
           => (last'.result <=> Live(store, last'.code, last'.t))]_vars

\* useOnce(c) was rejected at the exact instant now = expiresAt: c was issued for
\* 1 ms, never accepted, and the call read the clock 1 ms after the issue.
C2_Witness ==
    \E c \in Passcodes :
        /\ Returned("useOnce", c, FALSE)
        /\ last.had
        /\ consumed[c] = "no"
        /\ issued[c].asked = "within"
        /\ last.t = issued[c].at + 1

(* C3: issue(c, d) returns true exactly when a live entry for c (present,      *)
(* now < expiresAt, not used) existed immediately before the call, now being *)
(* the clock value issue reads; it returns false for a code never issued,    *)
(* expired or consumed.                                                      *)
C3_IssueResult ==
    [][Call("issue")
           => (last'.result <=> Live(store, last'.code, last'.t))]_vars

\* issue(c) has returned true after the clock advanced, while another passcode
\* has been consumed.
C3_Witness ==
    \E c \in Passcodes, c2 \in Passcodes :
        /\ Returned("issue", c, TRUE)
        /\ last.t > StartTime
        /\ consumed[c2] = "yes"

(* C4: duration cap.  No useOnce(c) call made 300000 ms or more after the      *)
(* most recent issue(c) returns true, whatever duration was asked for; in    *)
(* particular after issue(c, d) with d > 300000 at time t, useOnce(c) at any *)
(* time >= t + 300000 returns false although d has not elapsed.              *)
C4_DurationCap ==
    [][(Call("useOnce") /\ last'.t >= issued[last'.code].at + 300000)
           => last'.result = FALSE]_vars

\* c was issued for more than the cap and never accepted; a useOnce(c) made
\* exactly 300000 ms after the issue was rejected.
C4_Witness ==
    \E c \in Passcodes :
        /\ Returned("useOnce", c, FALSE)
        /\ consumed[c] = "no"
        /\ issued[c].asked = "over"
        /\ last.t = issued[c].at + 300000

(* C5 as stated: issue(c, d) returns false for a c that has no entry in the    *)
(* store, and the issue(c, d') immediately following it returns true when it *)
(* is made before d has elapsed.                                             *)
C5_AsStated ==
    [][Call("issue") =>
         /\ ~MapHas(store, last'.code) => last'.result = FALSE
         /\ (FollowsIssue /\ ~last.had /\ Within(last'.t - last.t, last.dur))
                => last'.result = TRUE]_vars

(* C5, amended: issue(c, d) returns false for a c that has no entry in the     *)
(* store, and the issue(c, d') immediately following it returns true when it *)
(* is made before min(d, 300000) ms have elapsed.                            *)
C5_IssueTwice ==
    [][Call("issue") =>
         /\ ~MapHas(store, last'.code) => last'.result = FALSE
         /\ (FollowsIssue /\ ~last.had /\ Within(last'.t - last.t, last.dur)
                 /\ last'.t - last.t < 300000)
                => last'.result = TRUE]_vars

\* Two calls have been made, the second is an issue that returned true after
\* the clock advanced: the first was issue on the same passcode, then new.
C5_Witness ==
    \E c \in Passcodes :
        /\ calls = 2
        /\ Returned("issue", c, TRUE)
        /\ last.t > StartTime

(* C6: for any d > 0, issue(c, d) followed by useOnce(c) with no clock advance *)
(* in between returns true, whatever the store held before the issue.        *)
C6_IssueThenUse ==
    [][(Call("useOnce") /\ FollowsIssue /\ Positive(last.dur) /\ last'.t = last.t)
           => last'.result = TRUE]_vars

\* useOnce(c) was accepted at the clock value of the issue(c), for a c that had
\* been consumed before that issue.
C6_Witness ==
    \E c \in Passcodes :
        /\ Returned("useOnce", c, TRUE)
        /\ last.t = issued[c].at
        /\ consumed[c] = "yesAgain"

(* C7 as stated: when c has been consumed, issue(c, d) returns false and makes *)
(* c live again, and the useOnce(c) that follows returns true.               *)
C7_AsStated ==
    [][/\ (Call("issue") /\ consumed[last'.code] \in Accepted)
           => (last'.result = FALSE /\ Live(store', last'.code, last'.t))
       /\ (Call("useOnce") /\ FollowsIssue /\ consumed[last'.code] = "again")
           => last'.result = TRUE]_vars

(* C7, amended: when c has been consumed, issue(c, d) returns false; when d is *)
(* a number greater than 0 it makes c live again, and the useOnce(c) that    *)
(* follows returns true if made before min(d, 300000) ms have elapsed.       *)
C7_RefreshResets ==
    [][/\ (Call("issue") /\ consumed[last'.code] \in Accepted)
           => /\ last'.result = FALSE
              /\ Positive(last'.dur) => Live(store', last'.code, last'.t)
       /\ (Call("useOnce") /\ FollowsIssue /\ consumed[last'.code] = "again"
               /\ Within(last'.t - last.t, last.dur) /\ last'.t - last.t < 300000)
           => last'.result = TRUE]_vars

\* c was consumed, issued again, and accepted again after the clock advanced.
C7_Witness ==
    \E c \in Passcodes :
        /\ Returned("useOnce", c, TRUE)
        /\ consumed[c] = "yesAgain"
        /\ last.t > issued[c].at

(* C8: useOnce(c) on a passcode never issued returns false, at any time and    *)
(* after any calls on other passcodes, and leaves the entry of every live    *)
(* passcode as it was.                                                       *)
C8_NeverIssued ==
    [][(Call("useOnce") /\ issued[last'.code] = Never) =>
         /\ last'.result = FALSE
         /\ \A c \in Passcodes :
                Live(store, c, last'.t) => MapGet(store', c) = MapGet(store, c)]_vars

\* useOnce was rejected for a passcode never issued while another passcode,
\* consumed once and issued again, was live.
C8_Witness ==
    \E c \in Passcodes, c2 \in Passcodes :
        /\ Returned("useOnce", c, FALSE)
        /\ issued[c] = Never
        /\ consumed[c2] = "again"
        /\ Live(store, c2, last.t)
        /\ last.t > issued[c2].at

(* C9 as stated: when an issue or useOnce call returns, the store holds only   *)
(* live entries: none with expiresAt <= now, none with used = true.          *)
C9_AsStated == [][last' # last => Clean(store', now')]_vars

(* C9, amended: when an issue or useOnce call returns, the store holds no      *)
(* entry with used = true and no entry with expiresAt at or before the clock *)
(* value read by the last sweep the call ran, except the entry issue(c, d)   *)
(* has just written: that one is unexpired at issue's own clock read exactly *)
(* when d is a number greater than 0.                                        *)
C9_CleanStore ==
    [][last' # last =>
         LET swept == IF last'.op = "useOnce" /\ last'.result THEN now' ELSE now
             others == IF last'.op = "issue"
                       THEN MapDelete(store', last'.code) ELSE store'
         IN  /\ Clean(others, swept)
             /\ last'.op = "issue" =>
                  /\ MapHas(store', last'.code)
                  /\ ~MapGet(store', last'.code)[1].used
                  /\ Live(store', last'.code, last'.t) <=> Positive(last'.dur)]_vars

\* issue has just returned, leaving two expired entries: the one it wrote, with
\* a duration that is no positive number, and one of another passcode, that
\* expired between the sweep's clock read and issue's own.
C9_Witness ==
    /\ last.op = "issue"
    /\ last.t = now
    /\ ~Positive(last.dur)
    /\ Len(store) = 2
    /\ \A i \in 1..2 : JSLe(store[i].expiresAt, Num(now))

(* C10 as stated: every entry written by issue(c, d) at time t has             *)
(* t <= expiresAt <= t + 300000, whatever d is.                              *)
C10_Clamped ==
    \A i \in 1..Len(store) :
        /\ store[i].expiresAt.k = "num"
        /\ issued[store[i].key].at <= store[i].expiresAt.v
        /\ store[i].expiresAt.v <= issued[store[i].key].at + 300000

(* C11 as stated: issue(c, d) with a d that is missing, not a number, NaN,     *)
(* zero or negative raises no error and returns a boolean, and every         *)
(* useOnce(c) that follows with no other issue(c) in between returns false,  *)
(* even with no clock advance.                                               *)
C11_FailSafeShort ==
    [][/\ (Call("issue") /\ ~Positive(last'.dur))
           => (~last'.threw /\ last'.result \in BOOLEAN)
       /\ (Call("useOnce") /\ issued[last'.code] # Never
               /\ issued[last'.code].asked = "none")
           => last'.result = FALSE]_vars

\* The second half alone: after an issue(c, d) that returned, with d no positive
\* number, every useOnce(c) before the next issue(c) returns false.
UnredeemableAfterShortIssue ==
    [][(Call("useOnce") /\ issued[last'.code] # Never
            /\ issued[last'.code].asked = "none")
           => last'.result = FALSE]_vars

(* C12: indistinguishable rejections.  Of two stores on the same clock, equal  *)
(* but for passcode c, never issued in one and issued and since consumed or  *)
(* expired in the other, every later issue and useOnce call returns the same *)
(* result in both (and leaves the same entries in both).                     *)
C12_Indistinguishable ==
    twin.called => /\ twin.result = last.result
                   /\ Entries(twin.store) = Entries(store)

\* After the stores were paired while the first still held the expired entry of
\* c, a call on c has returned true in both.
C12_Witness ==
    /\ twin.on
    /\ twin.stale
    /\ last.code = twin.code
    /\ last.result
    /\ twin.result

\* How long an entry lasts, for a duration of PairDurations asked for.
Life(asked) ==
    CASE asked = "over" -> 300000 [] asked = "within" -> 1 [] OTHER -> 0

(* C13: instance isolation.  Of two stores made by separate createOtpStore()   *)
(* calls, a call on one never changes the entries of the other, and what a   *)
(* useOnce(c) on the first returns is decided by the calls made on the first *)
(* alone: true exactly when c was issued there, not accepted since, and the  *)
(* capped duration of that issue has not elapsed.                            *)
C13_Isolation ==
    [][/\ store' # store => twin'.inst = 1
       /\ twin'.store # twin.store => twin'.inst = 2
       /\ Call("useOnce") =>
            (last'.result <=>
                 /\ issued[last'.code] # Never
                 /\ consumed[last'.code] \notin Accepted
                 /\ last'.t < issued[last'.code].at
                                 + Life(issued[last'.code].asked))]_vars

\* The second instance has just accepted a passcode that the first instance
\* accepted earlier and then rejected.
C13_Witness ==
    /\ twin.inst = 2
    /\ twin.result
    /\ twin.store = << >>
    /\ Returned("useOnce", 123456, FALSE)
    /\ consumed[123456] = "yes"

\* Entry e is neither used nor expired at t.
Kept(e, t) == ~e.used /\ e.expiresAt.k = "num" /\ e.expiresAt.v > t

\* The Map s with its entries in every order.
Orders(s) ==
    {q \in [1..Len(s) -> Entries(s)] : \A i, j \in 1..Len(s) : i # j => q[i] # q[j]}

(* C14: the sweep at a fixed clock value removes exactly the entries with      *)
(* expiresAt <= now or used = true and leaves the others as they were and in *)
(* their order; a second sweep at the same clock value changes nothing; and  *)
(* the set of entries left is the same for every order of the Map swept.     *)
C14_Sweep ==
    twin.called =>
        /\ store = SelectSeq(twin.store, LAMBDA e : Kept(e, now))
        /\ purgeExpired(store, now) = store
        /\ \A q \in Orders(twin.store) :
               Entries(purgeExpired(q, now)) = Entries(store)

\* The sweep has run on a Map of three entries where two entries to remove
\* stood next to each other before one to keep, and left that one alone.
C14_Witness ==
    /\ twin.called
    /\ Len(twin.store) = 3
    /\ ~Kept(twin.store[1], now)
    /\ ~Kept(twin.store[2], now)
    /\ Kept(twin.store[3], now)
    /\ twin.store[1].used
    /\ twin.store[2].expiresAt = Num(now)
    /\ Len(store) = 1

(* C15: atomic check-and-write.  Of two issue calls with positive durations    *)
(* made one after the other for a passcode c that had no live entry, the     *)
(* second made before the first one's capped duration has elapsed, the first *)
(* returns false and the second returns true; never do both return false.    *)
C15_AtomicIssue ==
    [][(Call("issue") /\ FollowsIssue /\ ~last.result
            /\ Positive(last.dur) /\ Positive(last'.dur)
            /\ Within(last'.t - last.t, last.dur) /\ last'.t - last.t < 300000)
           => last'.result = TRUE]_vars

\* Two calls have been made, both issue on the same passcode: the first, for more
\* than the cap, returned false; the second, made 1 ms before the capped
\* duration of the first ran out, returned true.
C15_Witness ==
    /\ calls = 2
    /\ Returned("issue", 123456, TRUE)
    /\ last.t = StartTime + 299999
    /\ Positive(last.dur)

\* t + min(d, 300000), for a number d.
ExpiryAsked(t, d) ==
    IF d.k = "inf" THEN (IF d.v > 0 THEN Num(t + 300000) ELSE d)
    ELSE IF d.v < 300000 THEN Num(t + d.v) ELSE Num(t + 300000)

(* C16: duration overwrite.  When issue(c, d2) with a number d2 has returned,  *)
(* c's entry has expiresAt = now + min(d2, 300000), now being the clock      *)
(* value issue read, and used = false, whatever entry c had before: a        *)
(* re-issue shortens the validity of a live entry as well as extends it.     *)
C16_Overwrite ==
    (last.op = "issue" /\ ~last.threw /\ last.dur.k \in {"num", "inf"})
        => MapGet(store, last.code) =
               << [key |-> last.code,
                   expiresAt |-> ExpiryAsked(last.t, last.dur),
                   used |-> FALSE] >>

\* issue(c, 0) has returned true: c had a live entry, whose expiry was after
\* the clock value issue read, and now has one that expires at that value.
C16_Witness ==
    \E c \in Passcodes :
        /\ Returned("issue", c, TRUE)
        /\ last.dur = Num(0)
        /\ MapGet(store, c)[1].expiresAt = Num(last.t)

(* C17: frame condition.  A call issue(c, .) or useOnce(c) leaves the entry of *)
(* every other passcode as it was, or removes it; it removes only entries    *)
(* that are expired or used when the call sweeps, so the entry of a passcode *)
(* that is live through the call is neither added, changed nor removed.      *)
C17_Frame ==
    [][last' # last =>
         \A c \in Passcodes \ {last'.code} :
             \/ MapGet(store', c) = MapGet(store, c)
             \/ /\ MapHas(store, c)
                /\ ~MapHas(store', c)
                /\ ~Live(store, c, now')]_vars

\* useOnce(c) has been accepted and has run its trailing sweep, after the clock
\* advanced, and the other passcode, issued earlier, is still live.
C17_Witness ==
    \E c \in Passcodes, c2 \in Passcodes :
        /\ c2 # c
        /\ Returned("useOnce", c, TRUE)
        /\ Live(store, c2, now)
        /\ issued[c2].at < issued[c].at

(* C18: when useOnce(c) has returned true the Map holds no entry for c (the    *)
(* entry is removed, not only flagged), and between calls the Map never      *)
(* holds an entry with used = true.                                          *)
C18_NoUsedEntry ==
    /\ \A i \in 1..Len(store) : ~store[i].used
    /\ (last.op = "useOnce" /\ last.result) => ~MapHas(store, last.code)

\* useOnce(c) has returned true, its entry is gone and the other passcode's
\* entry is still in the Map.
C18_Witness ==
    \E c \in Passcodes :
        /\ Returned("useOnce", c, TRUE)
        /\ last.had
        /\ ~MapHas(store, c)
        /\ Len(store) = 1

(* C19: eviction.  The first issue or useOnce call, on any passcode, made at   *)
(* or after the expiresAt of an entry removes that entry (issue on the same  *)
(* passcode then writes a new one); and with the clock advancing and calls   *)
(* being made for ever, a passcode that has an entry and is not issued again *)
(* eventually has none.                                                      *)
C19_Eviction ==
    /\ [][last' # last =>
             \A i \in 1..Len(store) :
                 JSLe(store[i].expiresAt, Num(now))
                     => \/ ~MapHas(store', store[i].key)
                        \/ /\ last'.op = "issue"
                           /\ last'.code = store[i].key
                           /\ ~last'.threw]_vars
    /\ \A c \in Passcodes :
           (MapHas(store, c) /\ calls = MaxCalls) ~> ~MapHas(store, c)

\* The entry of c, issued for more than the cap and never used, has been removed
\* by a useOnce call on the other passcode made after it expired.
C19_Witness ==
    \E c \in Passcodes, c2 \in Passcodes :
        /\ c2 # c
        /\ issued[c].asked = "over"
        /\ consumed[c] = "no"
        /\ ~MapHas(store, c)
        /\ last.op = "useOnce"
        /\ last.code = c2
        /\ calls = MaxCalls
        /\ issued[c2] = Never

\* The lifecycle state of passcode c in the Map s at clock value t.
Class(s, c, t) ==
    LET found == MapGet(s, c)
    IN  IF found = << >> THEN "absent"
        ELSE IF found[1].used THEN "consumed"
        ELSE IF JSGt(found[1].expiresAt, Num(t)) THEN "active"
        ELSE "expired"

\* The step is a call op(c, ...).
CallOn(op, c) == last'.op = op /\ last'.code = c /\ last' # last

\* The step takes passcode c from state a to state b by one of the listed
\* transitions, or by several of them in a row within one call (a sweep or the
\* passage of time, then the call's own effect, then the trailing sweep).
Listed(c, a, b) ==
    CASE b = "active" ->
            a \in {"absent", "active", "expired"} /\ CallOn("issue", c)
      [] b = "expired" ->
            a = "active" /\ now' > now /\ MapGet(store', c) = MapGet(store, c)
      [] b = "absent" /\ a = "active" ->
            \/ CallOn("useOnce", c) /\ last'.result
            \/ now' > now /\ ~Live(store, c, now') /\ last' # last
      [] b = "absent" /\ a = "expired" ->
            last' # last /\ ~(last'.code = c /\ last'.result)
      [] OTHER -> FALSE

\* What a call on passcode c leaves, by the listed transitions.
Outcome(c, a, b) ==
    CASE last'.code # c \/ last' = last -> TRUE
      [] last'.op = "issue" -> last'.threw \/ b = "active"
      [] OTHER -> b = "absent" /\ (last'.result => a = "active")

(* C20 as stated: with each passcode classed as absent, active, consumed or    *)
(* expired, every change of class is one of the listed transitions, and      *)
(* every call on a passcode leaves it where they say; a passcode becomes     *)
(* expired only from active, through the passage of time.                    *)
C20_AsStated ==
    [][\A c \in Passcodes :
         LET a == Class(store, c, now)
             b == Class(store', c, now')
         IN  /\ a # b => Listed(c, a, b)
             /\ Outcome(c, a, b)]_vars

(* C20, amended: every change of class is one of the listed transitions or     *)
(* the one made by issue(c, d) with d zero, negative or not a number, which  *)
(* takes c from absent, active or expired to expired (issue(c, d) takes c to *)
(* active when d is a number greater than 0); a passcode becomes expired     *)
(* from active through the passage of time, or through such an issue.        *)
C20_Lifecycle ==
    [][\A c \in Passcodes :
         LET a == Class(store, c, now)
             b == Class(store', c, now')
         IN  IF CallOn("issue", c) /\ ~last'.threw /\ ~Positive(last'.dur)
             THEN b = "expired"
             ELSE (a # b => Listed(c, a, b)) /\ Outcome(c, a, b)]_vars

\* issue(c, d) with d no positive number has returned false, for a c that had no
\* entry, and leaves c expired.
C20_Witness ==
    \E c \in Passcodes :
        /\ Returned("issue", c, FALSE)
        /\ ~last.had
        /\ ~Positive(last.dur)
        /\ last.t = now
        /\ Class(store, c, now) = "expired"

(* C21: the two createOtpStore definitions are observationally equivalent:   *)
(* for every sequence of issue and useOnce calls and clock advances, also    *)
(* with a clock tick between the sweep's clock read and issue's own, the     *)
(* same call returns the same result from both and both hold the same       *)
(* entries.                                                                  *)
C21_Equivalent ==
    twin.inst = 2 => /\ twin.result = last.result
                     /\ twin.store = store

(* C22 as stated: the UI mirror stays in sync with the store.  A passcode      *)
(* issued through addToActiveOTPs stays in activeOTPs, with its interval       *)
(* timer, for as long as its latest issue is unexpired and unused; the expiry  *)
(* timeout of an earlier issue does not remove a passcode re-issued since.     *)
C22_MirrorInSync ==
    \A p \in Passcodes :
       Live(store, p, now) =>
          /\ ActiveHas(ui, p)
          /\ \E x \in ui.timers : x.passcode = p

(* C23 as stated: the UI validates codes before calling the store.  No call    *)
(* of otpStore.issue or otpStore.useOnce made by handleIssueOTP or             *)
(* handleAuthentication has a passcode outside 100000..99999999, and a         *)
(* submission refused by the validation leaves the store, activeOTPs and       *)
(* timers as they were.                                                        *)
C23_Validated ==
    [][/\ last' # last => last'.code \in 100000..99999999
       /\ (ui'.submits # ui.submits /\ ui'.handled = "refused")
          => /\ store' = store
             /\ ui'.activeOTPs = ui.activeOTPs
             /\ ui'.timers = ui.timers]_vars

(* C24 as stated: in every run of handleDemo, also when the user submits the   *)
(* issue or authenticate form during its delays, the demo's first              *)
(* useOnce(999888) returns true and its second useOnce(999888) returns false.  *)
C24_DemoOutcome ==
    /\ ui.authResult # "false"
    /\ ui.secondAuth # "true"

(* C25: demo locking.  The demo button is disabled from the start of           *)
(* handleDemo until the run finishes, so that at most one run is in progress   *)
(* at any time; every run comes to its end, whether it completes or a step     *)
(* throws, and when no run is in progress the button is enabled and has its    *)
(* original label.                                                             *)
C25_DemoLocking ==
    /\ [](ui.runs # << >> => ui.btn.disabled)
    /\ [](Len(ui.runs) <= 1)
    /\ [](ui.runs = << >> =>
             ~ui.btn.disabled /\ ui.btn.innerHTML = OriginalLabel)
    /\ (ui.runs # << >>) ~> (ui.runs = << >>)

\* A run has ended in the catch block after its first useOnce, and the button
\* is enabled again with its original label.
C25_Witness ==
    /\ ui.demos = 1
    /\ ui.runs = << >>
    /\ ui.authResult = "true"
    /\ ui.secondAuth = "none"
    /\ ~ui.btn.disabled
    /\ ui.btn.innerHTML = OriginalLabel

(* C26: timer bookkeeping.  When a UI callback (addToActiveOTPs, a tick of     *)
(* updateOTPTimer, an expiry timeout) has completed, timers and activeOTPs     *)
(* hold the same passcodes, and every interval still running is the one that   *)
(* timers records for its passcode: none is left running for a passcode that   *)
(* was removed or re-issued.                                                   *)
C26_TimerBookkeeping ==
    /\ { m.passcode : m \in ui.activeOTPs } = { x.passcode : x \in ui.timers }
    /\ \A i \in ui.intervals : [passcode |-> i.passcode, id |-> i.id] \in ui.timers

\* 123456 was issued and re-issued while live, and the interval set by the
\* re-issue has ticked since: it is the only one running.
C26_Witness ==
    /\ ui.timers = { [passcode |-> 123456, id |-> 2] }
    /\ ui.intervals = { [passcode |-> 123456, id |-> 2, due |-> now + Period] }
    /\ ui.elapsed > 0
    /\ ActiveHas(ui, 123456)
    /\ ActiveGet(ui, 123456).wasExisting

(* C27: the branch of useOnce that deletes an entry found expired or used and  *)
(* returns false is reached only when the clock advances between the initial   *)
(* sweep's clock read and useOnce's own; when both reads see the same time,    *)
(* an entry that survives the initial sweep is live and useOnce returns true   *)
(* for it.                                                                     *)
C27_RejectBranch ==
    [][Call("useOnce") =>
         LET swept == purgeExpired(store, now)
             c == last'.code
             found == MapHas(swept, c)
         IN  /\ (found /\ useOnceRejects(MapGet(swept, c)[1], last'.t))
                => last'.t > now
             /\ (found /\ last'.t = now)
                => /\ Live(swept, c, now)
                   /\ last'.result = TRUE]_vars

\* The clock has never advanced, and useOnce(c) has found an entry after its
\* sweep and returned true.
C27_Witness ==
    /\ ticks = 0
    /\ now = StartTime
    /\ \E c \in Passcodes : Returned("useOnce", c, TRUE) /\ last.had

====
